---------------------------- MODULE Spec2Model ----------------------------
(* Model of endoscopy/boundary_detection/com_boundary_detectors.py:        *)
(* boundaryRectangle and boundaryCircle, applied by a caller to an image    *)
(* and a threshold.  numpy's float64 arithmetic is modelled by exact        *)
(* rationals extended with NaN and infinity (rounding is not modelled).     *)
EXTENDS Integers, Sequences, FiniteSets, TLC

VARIABLES img, th, rect, circle, prev_th, prev_rect

vars == <<img, th, rect, circle, prev_th, prev_rect>>

(* ------------------------------ bounds -------------------------------- *)
MaxH == 2
MaxW == 3

(* ------------------------- program constants -------------------------- *)
DefaultTh == 10
White == 255

(* ----------------------- float64 as rationals ------------------------- *)
Abs(x) == IF x < 0 THEN -x ELSE x

RECURSIVE GCD(_, _)
GCD(a, b) == IF b = 0 THEN a ELSE GCD(b, a % b)

NaN == [k |-> "nan", n |-> 0, d |-> 1]

Inf(s) == [k |-> "inf", n |-> s, d |-> 1]

Num(n, d) ==
    LET g == GCD(Abs(n), Abs(d))
        s == IF d < 0 THEN -1 ELSE 1
    IN  [k |-> "num", n |-> (s * n) \div g, d |-> (s * d) \div g]

Sign(x) == IF x > 0 THEN 1 ELSE IF x < 0 THEN -1 ELSE 0

FAdd(a, b) ==
    IF a.k = "nan" \/ b.k = "nan" THEN NaN
    ELSE IF a.k = "inf" /\ b.k = "inf" THEN (IF a.n = b.n THEN a ELSE NaN)
    ELSE IF a.k = "inf" THEN a
    ELSE IF b.k = "inf" THEN b
    ELSE Num(a.n * b.d + b.n * a.d, a.d * b.d)

FMul(a, b) ==
    IF a.k = "nan" \/ b.k = "nan" THEN NaN
    ELSE IF a.k = "inf" \/ b.k = "inf"
         THEN (IF a.n = 0 \/ b.n = 0 THEN NaN ELSE Inf(Sign(a.n) * Sign(b.n)))
    ELSE Num(a.n * b.n, a.d * b.d)

FDiv(a, b) ==
    IF a.k = "nan" \/ b.k = "nan" THEN NaN
    ELSE IF a.k = "inf" THEN (IF b.k = "inf" THEN NaN
                              ELSE Inf(a.n * (IF b.n < 0 THEN -1 ELSE 1)))
    ELSE IF b.k = "inf" THEN Num(0, 1)
    ELSE IF b.n = 0 THEN (IF a.n = 0 THEN NaN ELSE Inf(Sign(a.n)))
    ELSE Num(a.n * b.d, a.d * b.n)

FGreater(a, b) ==
    IF a.k = "nan" \/ b.k = "nan" THEN FALSE
    ELSE IF a.k = "inf" THEN a.n > 0 /\ ~(b.k = "inf" /\ b.n > 0)
    ELSE IF b.k = "inf" THEN b.n < 0
    ELSE a.n * b.d > b.n * a.d

IsNonzero(a) == a.k # "num" \/ a.n # 0

(* ------------------------------ arrays -------------------------------- *)
ndim(a) == Len(a.shape)

arange(n) == [i \in 0..(n - 1) |-> Num(i, 1)]

RECURSIVE IntSum(_, _)
IntSum(f, n) == IF n = 0 THEN 0 ELSE f[n - 1] + IntSum(f, n - 1)

RECURSIVE FSumTo(_, _)
FSumTo(v, n) == IF n = 0 THEN Num(0, 1) ELSE FAdd(FSumTo(v, n - 1), v[n - 1])

np_sum(v) == FSumTo(v, Cardinality(DOMAIN v))

np_multiply(a, b) == [i \in DOMAIN a |-> FMul(a[i], b[i])]

nonzero_all(v) == DOMAIN v

nonzero(v) == {i \in DOMAIN v : IsNonzero(v[i])}

np_min(S) == CHOOSE x \in S : \A y \in S : x <= y

np_max(S) == CHOOSE x \in S : \A y \in S : x >= y

(* ---------------------------- thresholding ---------------------------- *)
whiten_gt(v, t) == IF v <= t THEN 0 ELSE White

whiten_swapped(v, t) == IF v < t THEN White ELSE 0

whiten(v, t) == IF v < t THEN 0 ELSE White

threshold(a, t) ==
    [shape |-> a.shape, px |-> [p \in DOMAIN a.px |-> whiten(a.px[p], t) % 256]]

col_mean_of(m) ==
    LET H == m.shape[1]
        W == m.shape[2]
    IN  [j \in 0..(W - 1) |->
            IF H = 0 THEN NaN
            ELSE Num(IntSum([i \in 0..(H - 1) |-> m.px[<<i, j>>]], H), H)]

row_mean_of(m) ==
    LET H == m.shape[1]
        W == m.shape[2]
    IN  [i \in 0..(H - 1) |->
            IF W = 0 THEN NaN
            ELSE Num(IntSum([j \in 0..(W - 1) |-> m.px[<<i, j>>]], W), W)]

(* ------------------------------ results ------------------------------- *)
NoCall == [k |-> "none", exc |-> "", a |-> <<>>, b |-> <<>>]

Raise(e) == [k |-> "raise", exc |-> e, a |-> <<>>, b |-> <<>>]

Return(x, y) == [k |-> "ok", exc |-> "", a |-> x, b |-> y]

(* -------------------------- boundaryRectangle ------------------------- *)
rect_shape_exclusive(top, bottom, left, right) == <<bottom - top, right - left>>

rect_shape(top, bottom, left, right) == <<bottom - top + 1, right - left + 1>>

boundaryRectangle(a, t) ==
    LET m == threshold(a, t)
    IN  IF ndim(m) # 2 THEN Raise("AxisError")
        ELSE LET col_mean == col_mean_of(m)
                 row_mean == row_mean_of(m)
             IN  IF nonzero(row_mean) = {} THEN Raise("ValueError")
                 ELSE IF nonzero(col_mean) = {} THEN Raise("ValueError")
                 ELSE LET top    == np_min(nonzero(row_mean))
                          bottom == np_max(nonzero(row_mean))
                          left   == np_min(nonzero(col_mean))
                          right  == np_max(nonzero(col_mean))
                      IN  Return(<<top, left>>, rect_shape(top, bottom, left, right))

(* ---------------------------- boundaryCircle -------------------------- *)
com_unweighted(mean) ==
    FDiv(np_sum(arange(Cardinality(DOMAIN mean))), Num(Cardinality(DOMAIN mean), 1))

com_one_based(mean) ==
    FDiv(np_sum(np_multiply([i \in DOMAIN mean |-> Num(i + 1, 1)], mean)), np_sum(mean))

com(mean) ==
    FDiv(np_sum(np_multiply(arange(Cardinality(DOMAIN mean)), mean)), np_sum(mean))

half_span(mean) == FDiv(Num(np_max(nonzero(mean)) - np_min(nonzero(mean)), 1), Num(2, 1))

py_max(x, y) == IF FGreater(y, x) THEN y ELSE x

circle_radius_both_axes(col_mean, row_mean) ==
    IF nonzero(row_mean) = {} THEN half_span(col_mean)
    ELSE py_max(half_span(col_mean), half_span(row_mean))

circle_radius(col_mean, row_mean) ==
    LET col_radius == half_span(col_mean)
        row_radius == half_span(col_mean)
    IN  py_max(col_radius, row_radius)

boundaryCircle(a, t) ==
    LET m == threshold(a, t)
    IN  IF ndim(m) # 2 THEN Raise("AxisError")
        ELSE LET col_mean == col_mean_of(m)
                 row_mean == row_mean_of(m)
                 col_com  == com(col_mean)
                 row_com  == com(row_mean)
             IN  IF nonzero(col_mean) = {} THEN Raise("ValueError")
                 ELSE Return(<<row_com, col_com>>, circle_radius(col_mean, row_mean))

(* ------------------------------- inputs ------------------------------- *)
Intensities == {0, DefaultTh}

Thresholds == {0, DefaultTh - 1, DefaultTh, DefaultTh + 1}

Array1D(L) == [shape : {<<L>>}, px : [{<<i>> : i \in 0..(L - 1)} -> Intensities]]

Array2D(H, W) ==
    [shape : {<<H, W>>}, px : [(0..(H - 1)) \X (0..(W - 1)) -> Intensities]]

Images ==
    (UNION {Array2D(H, W) : H \in 0..MaxH, W \in 0..MaxW})
    \cup (UNION {Array1D(L) : L \in 0..MaxW})

BlockImage ==
    [shape |-> <<10, 10>>,
     px |-> [p \in (0..9) \X (0..9) |->
                IF p[1] \in 3..6 /\ p[2] \in 2..5 THEN 255 ELSE 0]]

(* ------------------------------ the caller ---------------------------- *)
Init ==
    /\ \/ img \in Images /\ th \in Thresholds
       \/ img = BlockImage /\ th = DefaultTh
    /\ rect = NoCall
    /\ circle = NoCall
    /\ prev_th = th
    /\ prev_rect = NoCall

CallBoundaryRectangle ==
    /\ rect = NoCall
    /\ rect' = boundaryRectangle(img, th)
    /\ UNCHANGED <<img, th, circle, prev_th, prev_rect>>

CallBoundaryCircle ==
    /\ circle = NoCall
    /\ circle' = boundaryCircle(img, th)
    /\ UNCHANGED <<img, th, rect, prev_th, prev_rect>>

Rethreshold ==
    /\ rect # NoCall
    /\ prev_rect = NoCall
    /\ \E t \in Thresholds \cup {th} :
          /\ th' = t
          /\ prev_th' = th
          /\ prev_rect' = rect
          /\ rect' = NoCall
          /\ circle' = NoCall
    /\ UNCHANGED img

Next == CallBoundaryRectangle \/ CallBoundaryCircle \/ Rethreshold

Spec == Init /\ [][Next]_vars

(* ------------------- vocabulary of the properties --------------------- *)
Lit(a, t) == {p \in DOMAIN a.px : a.px[p] >= t}

Valid2D(a) == ndim(a) = 2 /\ a.shape[1] >= 1 /\ a.shape[2] >= 1

LitRows == {p[1] : p \in Lit(img, th)}

LitCols == {p[2] : p \in Lit(img, th)}

Top == rect.a[1]

Left == rect.a[2]

Height == rect.b[1]

Width == rect.b[2]

Le(x, y) == x.k = "num" /\ y.k = "num" /\ x.n * y.d <= y.n * x.d

RECURSIVE SetSum(_)
SetSum(S) == IF S = {} THEN 0 ELSE LET x == CHOOSE y \in S : TRUE IN x + SetSum(S \ {x})

RowIndexSum == IntSum([i \in 0..(img.shape[1] - 1) |->
                          i * Cardinality({p \in Lit(img, th) : p[1] = i})], img.shape[1])

ColIndexSum == IntSum([j \in 0..(img.shape[2] - 1) |->
                          j * Cardinality({p \in Lit(img, th) : p[2] = j})], img.shape[2])

(* C1: containment -- whenever boundaryRectangle returns, every pixel with *)
(* intensity >= th lies in [top, top+h) x [left, left+w).                  *)
C1_Containment ==
    rect.k = "ok" =>
        \A p \in Lit(img, th) :
            /\ Top <= p[1] /\ p[1] < Top + Height
            /\ Left <= p[2] /\ p[2] < Left + Width

C1_Witness ==
    /\ rect.k = "ok"
    /\ Cardinality(Lit(img, th)) >= 2
    /\ Height * Width < img.shape[1] * img.shape[2]

(* C2: minimality -- rows top and top+h-1 and columns left and left+w-1   *)
(* of the returned rectangle each hold an illuminated pixel.               *)
C2_Minimality ==
    rect.k = "ok" =>
        /\ Top \in LitRows
        /\ Top + Height - 1 \in LitRows
        /\ Left \in LitCols
        /\ Left + Width - 1 \in LitCols

C2_Witness ==
    /\ rect.k = "ok"
    /\ Height >= 2
    /\ Width >= 2
    /\ Height * Width < img.shape[1] * img.shape[2]
    /\ Cardinality(Lit(img, th)) < Height * Width

C4_InvalidShapeError ==
    ~Valid2D(img) =>
        /\ rect # NoCall => rect = Raise("InvalidShapeError")
        /\ circle # NoCall => circle = Raise("InvalidShapeError")

(* C5: monotonic threshold -- of two rectangles returned for the same      *)
(* image, the one for the larger threshold lies inside the other and has   *)
(* no larger area.                                                         *)
BoxInside(r, s) ==
    /\ s.a[1] <= r.a[1]
    /\ s.a[2] <= r.a[2]
    /\ r.a[1] + r.b[1] <= s.a[1] + s.b[1]
    /\ r.a[2] + r.b[2] <= s.a[2] + s.b[2]
    /\ r.b[1] * r.b[2] <= s.b[1] * s.b[2]

C5_MonotonicThreshold ==
    (rect.k = "ok" /\ prev_rect.k = "ok") =>
        /\ prev_th <= th => BoxInside(rect, prev_rect)
        /\ th <= prev_th => BoxInside(prev_rect, rect)

C5_Witness ==
    /\ rect.k = "ok"
    /\ prev_rect.k = "ok"
    /\ prev_th < th
    /\ rect.b[1] * rect.b[2] < prev_rect.b[1] * prev_rect.b[2]

C7_Centroid ==
    (circle.k = "ok" /\ Lit(img, th) # {}) =>
        LET N == Num(Cardinality(Lit(img, th)), 1)
        IN  /\ FMul(circle.a[1], N) = Num(RowIndexSum, 1)
            /\ FMul(circle.a[2], N) = Num(ColIndexSum, 1)
            /\ (img = BlockImage /\ th = DefaultTh) => circle.a = <<Num(9, 2), Num(7, 2)>>

C7_Witness ==
    /\ img = BlockImage
    /\ th = DefaultTh
    /\ circle.k = "ok"
    /\ circle.a = <<Num(9, 2), Num(7, 2)>>

(* C8: column-span radius -- the radius is (max touched column - min       *)
(* touched column) / 2 whatever rows are illuminated, so 2*radius + 1 is   *)
(* the width boundaryRectangle returns.                                    *)
C8_ColumnSpanRadius ==
    (circle.k = "ok" /\ Lit(img, th) # {}) =>
        /\ circle.b = Num(np_max(LitCols) - np_min(LitCols), 2)
        /\ rect.k = "ok" => FAdd(FMul(Num(2, 1), circle.b), Num(1, 1)) = Num(Width, 1)

C8_Witness ==
    /\ circle.k = "ok"
    /\ rect.k = "ok"
    /\ Height > Width
    /\ circle.b = Num(0, 1)

(* C9: the radius is the larger of the two half-spans of the illuminated   *)
(* region, rows and columns.                                               *)
C9_LargerHalfSpan ==
    (circle.k = "ok" /\ Lit(img, th) # {}) =>
        LET rs == np_max(LitRows) - np_min(LitRows)
            cs == np_max(LitCols) - np_min(LitCols)
        IN  circle.b = Num(IF rs > cs THEN rs ELSE cs, 2)

(* C10: the circle's center lies inside the inclusive bounding box the     *)
(* rectangle detector returns for the same inputs, and the box lies        *)
(* inside the image.                                                       *)
C10_CenterInBox ==
    (rect.k = "ok" /\ circle.k = "ok") =>
        /\ Le(Num(Top, 1), circle.a[1])
        /\ Le(circle.a[1], Num(Top + Height - 1, 1))
        /\ Le(Num(Left, 1), circle.a[2])
        /\ Le(circle.a[2], Num(Left + Width - 1, 1))
        /\ 0 <= Top /\ Top + Height <= img.shape[1]
        /\ 0 <= Left /\ Left + Width <= img.shape[2]
        /\ Height >= 1 /\ Width >= 1

C10_Witness ==
    /\ rect.k = "ok"
    /\ circle.k = "ok"
    /\ circle.a[2].d > 1
    /\ Top + Height < img.shape[1]
    /\ Left > 0

=============================================================================
